---- MODULE Spec2Model ----
(***************************************************************************)
(* The two hash-sharded index trees of build_index.py, their flush to a   *)
(* directory layout, the lookups of document_getter.py that read the      *)
(* layout back, and the sentence resolver built on the word lookup.       *)
(*                                                                         *)
(* Strings are sequences of one-character strings, so that formatting,    *)
(* stripping, splitting and substring tests are computed as Python        *)
(* computes them.  A file is the flat character sequence written to it.   *)
(***************************************************************************)
EXTENDS Integers, Sequences, FiniteSets, TLC

VARIABLES
    first_round,   \* index_documents: TRUE while the name tree is built, FALSE for the content tree
    pc,            \* "build", "built", or the exception that ended the build
    index_dict,    \* the name tree (word -> set of document names)
    doc_dict,      \* the content tree (document name -> sentence dict)
    fs,            \* the persisted layout: directories and leaf files
    ret,           \* the last call of document_getter.py and what it returned
    ninserts,      \* the number of inserts so far
    inserted,      \* history: what the inserts so far put under each key
    index_dict_2,  \* a second build of the same corpus: its name tree
    fs_2,          \* a second build of the same corpus: its layout
    ss_sentence,      \* search_sentence: sentence
    ss_stop_words,    \* search_sentence: stop_words
    ss_words,         \* search_sentence: words, the tokens of the sentence
    ss_doc_names,     \* search_sentence: doc_names, lowercase word -> candidates (lowercase-initial tokens)
    ss_ne_doc_names,  \* search_sentence: ne_doc_names, lowercase word -> candidates (other tokens)
    ss_i,             \* search_sentence: i, the position the second loop is at
    ss_ne_found,      \* search_sentence: ne_found
    ss_result,        \* search_sentence: result, the accepted (name, word tuple) pairs
    accepted_at       \* history: the <<position, name>> acceptances that result holds

build_vars == <<first_round, pc, index_dict, doc_dict, fs, ret, ninserts, inserted>>
rebuild_vars == <<index_dict_2, fs_2>>
resolver_vars == <<ss_sentence, ss_stop_words, ss_words, ss_doc_names, ss_ne_doc_names,
                   ss_i, ss_ne_found, ss_result, accepted_at>>

vars == <<build_vars, rebuild_vars, resolver_vars>>

(***************************************************************************)
(* Bounds of the model.  FILE_CAPACITY is the leaf capacity of             *)
(* build_index.py, scaled down from 20000 so that leaves split within the  *)
(* bounded number of inserts.                                              *)
(***************************************************************************)
FILE_CAPACITY == 2
MaxInserts == 5
MaxDocs == 3
MaxTokens == 3
MaxCorpus == 3

(***************************************************************************)
(* Characters and Python string primitives.                                *)
(***************************************************************************)
NL == "\n"
SP == " "

\* Code point order of the characters the model uses (ASCII order).
CharOrder == <<"\n", " ", "(", ")", "-", "0", "1", "2", "3", "4", "5", "6", "7",
               "8", "9", "A", "B", "F", "L", "R", "S", "T", "_",
               "a", "b", "c", "d", "f", "g", "l", "m", "o", "r", "s", "t", "u", "x">>

ord(c) == CHOOSE i \in 1..Len(CharOrder) : CharOrder[i] = c

Whitespace == {" ", "\n"}

DecDigits == <<"0", "1", "2", "3", "4", "5", "6", "7", "8", "9">>

isdigit_char(c) == \E i \in 1..10 : DecDigits[i] = c

UpperOf == [c \in {"a", "b", "f", "l", "r", "s", "t"} |->
              CASE c = "a" -> "A" [] c = "b" -> "B" [] c = "f" -> "F"
                [] c = "l" -> "L" [] c = "r" -> "R" [] c = "s" -> "S"
                [] c = "t" -> "T"]

\* str.islower() of a one-character string: a cased, lowercase letter.
islower(c) == ord(c) >= ord("a")

isupper(c) == \E l \in DOMAIN UpperOf : UpperOf[l] = c

lower_char(c) == IF isupper(c) THEN CHOOSE l \in DOMAIN UpperOf : UpperOf[l] = c ELSE c

\* str.lower()
lower(s) == [i \in 1..Len(s) |-> lower_char(s[i])]

\* \w of the re module: letters, digits and the underscore.
isword_char(c) == islower(c) \/ isupper(c) \/ isdigit_char(c) \/ c = "_"

\* s[i:] and s[:i] with Python's 0-based, clamped slice bounds.
SliceFrom(s, i) == SubSeq(s, i + 1, Len(s))
SliceTo(s, i) == SubSeq(s, 1, IF i < Len(s) THEN i ELSE Len(s))

\* s.startswith(pat, i) with a 0-based i.
StartsAt(s, pat, i) ==
    /\ i + Len(pat) <= Len(s)
    /\ \A k \in 1..Len(pat) : s[i + k] = pat[k]

\* pat in s, for strings.
contains(s, pat) == \E i \in 0..Len(s) : StartsAt(s, pat, i)

\* s.find(c): the 0-based index of the first c, or -1.
find(s, c) ==
    IF \E i \in 1..Len(s) : s[i] = c
    THEN (CHOOSE i \in 1..Len(s) : s[i] = c /\ \A j \in 1..(i - 1) : s[j] # c) - 1
    ELSE -1

RECURSIVE replace(_, _, _)
\* s.replace(pat, rep): leftmost non-overlapping occurrences.
replace(s, pat, rep) ==
    IF s = <<>> THEN <<>>
    ELSE IF StartsAt(s, pat, 0)
         THEN rep \o replace(SliceFrom(s, Len(pat)), pat, rep)
         ELSE <<s[1]>> \o replace(Tail(s), pat, rep)

RECURSIVE lstrip(_)
lstrip(s) == IF s # <<>> /\ s[1] \in Whitespace THEN lstrip(Tail(s)) ELSE s

RECURSIVE rstrip(_)
rstrip(s) ==
    IF s # <<>> /\ s[Len(s)] \in Whitespace THEN rstrip(SubSeq(s, 1, Len(s) - 1)) ELSE s

\* str.strip()
strip(s) == rstrip(lstrip(s))

RECURSIVE SplitOn(_, _, _)
\* The maximal runs of characters outside seps, in order; cur is the run being read.
SplitOn(s, seps, cur) ==
    IF s = <<>> THEN (IF cur = <<>> THEN <<>> ELSE <<cur>>)
    ELSE IF s[1] \in seps
         THEN (IF cur = <<>> THEN <<>> ELSE <<cur>>) \o SplitOn(Tail(s), seps, <<>>)
         ELSE SplitOn(Tail(s), seps, Append(cur, s[1]))

\* str.split() with no argument: split on whitespace runs, no empty items.
split(s) == SplitOn(s, Whitespace, <<>>)

RECURSIVE readlines(_, _)
\* Iterating a text file: each line with its terminator, the last one maybe without.
readlines(s, cur) ==
    IF s = <<>> THEN (IF cur = <<>> THEN <<>> ELSE <<cur>>)
    ELSE IF s[1] = NL
         THEN <<Append(cur, NL)>> \o readlines(Tail(s), <<>>)
         ELSE readlines(Tail(s), Append(cur, s[1]))

RECURSIVE str(_)
\* str(n) of a non-negative integer: its decimal digits.
str(n) == IF n < 10 THEN <<DecDigits[n + 1]>> ELSE Append(str(n \div 10), DecDigits[(n % 10) + 1])

RECURSIVE int(_)
\* int(s) of a non-empty string of decimal digits.
int(s) ==
    IF Len(s) = 1 THEN (CHOOSE i \in 1..10 : DecDigits[i] = s[1]) - 1
    ELSE 10 * int(SubSeq(s, 1, Len(s) - 1)) + int(<<s[Len(s)]>>)

\* Whether int(s) succeeds (no sign or inner blanks occur in the model's files).
isint(s) == s # <<>> /\ \A i \in 1..Len(s) : isdigit_char(s[i])

RECURSIVE str_less(_, _)
\* s < t for strings: lexicographic by code point.
str_less(s, t) ==
    IF t = <<>> THEN FALSE
    ELSE IF s = <<>> THEN TRUE
    ELSE IF s[1] = t[1] THEN str_less(Tail(s), Tail(t))
    ELSE ord(s[1]) < ord(t[1])

RECURSIVE sorted(_)
\* sorted(S) of a set of strings.
sorted(S) ==
    IF S = {} THEN <<>>
    ELSE LET m == CHOOSE x \in S : \A y \in S \ {x} : str_less(x, y)
         IN  <<m>> \o sorted(S \ {m})

RECURSIVE join(_, _)
\* sep.join(items)
join(sep, items) ==
    IF items = <<>> THEN <<>>
    ELSE IF Len(items) = 1 THEN items[1]
    ELSE items[1] \o sep \o join(sep, Tail(items))

RECURSIVE concat(_)
\* The concatenation of a sequence of strings (successive write calls).
concat(items) == IF items = <<>> THEN <<>> ELSE items[1] \o concat(Tail(items))

Range(f) == {f[i] : i \in DOMAIN f}

(***************************************************************************)
(* The hash path router.  sha1_hash is SHA-1's hexadecimal digest; the     *)
(* model keeps it a fixed function of the key and shortens it to three     *)
(* digits over the alphabet Digits.  Distinct keys of the model have       *)
(* distinct digests, as distinct corpus keys have under SHA-1.             *)
(***************************************************************************)
Digits == {"0", "1", "2"}

SAFE_STRING == <<"x", "m", "c", "g", "c", "g">>

sha1_hash(target) ==
    CASE target = <<"a">> -> <<"0", "0", "0">>
      [] target = <<"b">> -> <<"0", "0", "1">>
      [] target = <<"c">> -> <<"0", "1", "0">>
      [] target = <<"d">> -> <<"0", "1", "1">>
      [] target = SAFE_STRING -> <<"1", "0", "0">>
      [] target = <<"A">> -> <<"2", "0", "0">>
      [] target = <<"0">> -> <<"2", "0", "1">>
      [] target = <<"B">> -> <<"2", "1", "0">>
      [] target = <<"C">> -> <<"2", "1", "1">>
      [] target = <<"s", "o", "u", "l">> -> <<"1", "1", "0">>
      [] target = <<"f", "o", "o", "d">> -> <<"1", "1", "1">>
      [] target = <<"a", "r", "t">> -> <<"1", "2", "0">>
      [] target = <<"s", "t", "a", "r", "t">> -> <<"1", "2", "1">>
      [] target = <<"t", "o">> -> <<"1", "0", "1">>
      [] OTHER -> <<"2", "2", "2">>

(***************************************************************************)
(* Index trees.  A tree is the nested dict below the root dict, kept as a  *)
(* function from the digit path of a node to the node.  A leaf is the dict *)
(* holding SAFE_STRING: its running total, and its keys with their         *)
(* payloads in the dict's insertion order.  Any other node is a dict of    *)
(* children; a leaf whose split raised has lost SAFE_STRING and kept its  *)
(* keys (kind "inner" with items).                                        *)
(***************************************************************************)
Leaf(total, items) == [kind |-> "leaf", total |-> total, items |-> items]

Inner == [kind |-> "inner", total |-> 0, items |-> <<>>]

EmptyTree == [p \in {} |-> Inner]

Put(t, path, node) == [p \in DOMAIN t \cup {path} |-> IF p = path THEN node ELSE t[p]]

\* key in value, value[key], for a leaf dict.
HasKey(value, key) == \E i \in 1..Len(value.items) : value.items[i].key = key

Get(value, key) == (CHOOSE i \in 1..Len(value.items) : value.items[i].key = key)

Payload(value, key) == value.items[Get(value, key)].val

\* value[key] = val: a new key goes last, a present key keeps its place.
SetItem(value, key, val) ==
    IF HasKey(value, key)
    THEN [value EXCEPT !.items[Get(value, key)].val = val]
    ELSE [value EXCEPT !.items = Append(@, [key |-> key, val |-> val])]

Keys(value) == {value.items[i].key : i \in 1..Len(value.items)}

\* A variant of SelectItems that reads the digit one position early.
SelectItems_EarlyDigit(items, digit, start_index) ==
    SelectSeq(items, LAMBDA it : sha1_hash(it.key)[start_index] = digit)

\* The items of a leaf whose digest has the given digit at start_index, in order.
SelectItems(items, digit, start_index) ==
    SelectSeq(items, LAMBDA it : sha1_hash(it.key)[start_index + 1] = digit)

RECURSIVE SumSeq(_)
SumSeq(s) == IF s = <<>> THEN 0 ELSE s[1] + SumSeq(Tail(s))

\* len(payload) of a set of names or of a sentence dict.
NameLen(name_set) == Cardinality(name_set)
ContentLen(doc_content) == Len(doc_content)

Normal(t) == [tree |-> t, raised |-> "none"]
Raise(t, exc) == [tree |-> t, raised |-> exc]

\* A variant of expand_indices that files the keys by the digit of the leaf
\* itself, not by the next one.
expand_indices_SameDigit(t, path, doc_name_dict, start_index) ==
    LET used == {sha1_hash(doc_name_dict.items[i].key)[start_index] :
                     i \in 1..Len(doc_name_dict.items)}
        child(hash_digit) ==
            LET its == SelectSeq(doc_name_dict.items,
                           LAMBDA it : sha1_hash(it.key)[start_index] = hash_digit)
            IN  Leaf(SumSeq([i \in 1..Len(its) |-> NameLen(its[i].val) + 1]), its)
    IN  [p \in DOMAIN t \cup {Append(path, d) : d \in used} |->
            IF p = path THEN Inner
            ELSE IF p \in DOMAIN t THEN t[p]
            ELSE child(p[Len(p)])]

\* expand_indices: the children of a split leaf, as nodes below path.  The
\* caller has checked that start_index is a position of the digest.
expand_indices(t, path, doc_name_dict, start_index) ==
    LET used == {sha1_hash(doc_name_dict.items[i].key)[start_index + 1] :
                     i \in 1..Len(doc_name_dict.items)}
        child(hash_digit) ==
            LET its == SelectItems(doc_name_dict.items, hash_digit, start_index)
            IN  Leaf(SumSeq([i \in 1..Len(its) |-> NameLen(its[i].val) + 1]), its)
    IN  [p \in DOMAIN t \cup {Append(path, d) : d \in used} |->
            IF p = path THEN Inner
            ELSE IF p \in DOMAIN t THEN t[p]
            ELSE child(p[Len(p)])]

RECURSIVE add_doc_name_word(_, _, _, _)
\* add_doc_name_word.  The body names the node index_node, as the docstring
\* does, while the signature spells the parameter index_dict; the model
\* reads both as the node the caller passes (the root on the first call, the
\* child on the recursive one).
add_doc_name_word(doc_name, word, index_node, start_index) ==
    LET word_hash == sha1_hash(word)
    IN  IF start_index >= Len(word_hash) THEN Raise(index_node, "IndexError")
        ELSE
        LET path == SubSeq(word_hash, 1, start_index + 1)
            t1 == IF path \in DOMAIN index_node THEN index_node
                  ELSE Put(index_node, path, Leaf(0, <<>>))
            value == t1[path]
        IN  IF value.kind = "leaf"
            THEN IF word = SAFE_STRING
                 THEN \* value[word] is the running total: int has no add
                      Raise(t1, "AttributeError")
                 ELSE
                 LET old == IF HasKey(value, word) THEN Payload(value, word) ELSE {}
                     v1 == SetItem(value, word, old \cup {doc_name})
                     v2 == [v1 EXCEPT !.total = @ + 1]
                 IN  IF v2.total > FILE_CAPACITY
                        /\ FILE_CAPACITY >= NameLen(Payload(v2, word)) + 1
                     THEN IF start_index + 1 >= Len(word_hash)
                          THEN \* del value[SAFE_STRING] is done, and the first
                               \* digit expand reads is past the digest: the
                               \* node stays, its keys in the place of children
                               Raise(Put(t1, path, [v2 EXCEPT !.kind = "inner", !.total = 0]),
                                     "IndexError")
                          ELSE Normal(expand_indices(t1, path, v2, start_index + 1))
                     ELSE Normal(Put(t1, path, v2))
            ELSE add_doc_name_word(doc_name, word, t1, start_index + 1)

(***************************************************************************)
(* The persisted layout: the set of directories and the leaf files, each   *)
(* addressed by its root folder followed by the digits of its path (the    *)
(* file of path p is p + ".txt").  Builder and reader join path segments   *)
(* with the same separator, as they do on win32.                           *)
(***************************************************************************)
INDEX_FOLDER == "docname-index"
DOC_FOLDER == "indexed-docs"

NoFiles == [dirs |-> {}, files |-> [p \in {} |-> <<>>]]

isdir(layout, path) == path \in layout.dirs
isfile(layout, path) == path \in DOMAIN layout.files

\* The text build_indices writes for one leaf: per word a header line
\* "<word> <count>" and the document names in sorted order, one per line.
IndexFileText(value) ==
    concat([i \in 1..Len(value.items) |->
        LET word == value.items[i].key
            names == sorted(value.items[i].val)
        IN  word \o <<SP>> \o str(NameLen(value.items[i].val)) \o <<NL>>
            \o concat([k \in 1..Len(names) |-> names[k] \o <<NL>>])])

\* build_indices, after os.mkdir(INDEX_FOLDER): every leaf becomes the file
\* of its path, every other node a directory.  The progress counters
\* (processed_word_count, word_count_1percent) are not part of the model.
build_indices(index_node, index_folder) ==
    [dirs |-> {<<index_folder>>}
                \cup {<<index_folder>> \o p : p \in {q \in DOMAIN index_node :
                                                      index_node[q].kind = "inner"}},
     files |-> [f \in {<<index_folder>> \o p : p \in {q \in DOMAIN index_node :
                                                      index_node[q].kind = "leaf"}} |->
                   IndexFileText(index_node[Tail(f)])]]

\* A variant of Descent that walks every digit of the digest.
Descent_NoStop(layout, folder, key_hash) ==
    [visited |-> [i \in 1..Len(key_hash) |-> <<folder>> \o SubSeq(key_hash, 1, i)],
     stopped |-> TRUE]

\* The path segments a lookup inspects: one per digest digit, up to and
\* including the first that is not a directory.
Descent(layout, folder, key_hash) ==
    LET path(i) == <<folder>> \o SubSeq(key_hash, 1, i)
        stops == {i \in 1..Len(key_hash) : ~isdir(layout, path(i))}
        last == IF stops = {} THEN Len(key_hash)
                ELSE CHOOSE i \in stops : \A j \in stops : i <= j
    IN  [visited |-> [i \in 1..last |-> path(i)],
         stopped |-> stops # {}]

RECURSIVE ScanWord(_, _, _, _)
\* The line loop of search_word over the lines still to be read.
ScanWord(lines, word, word_found, doc_name_list) ==
    IF lines = <<>> THEN doc_name_list
    ELSE LET line_items == split(strip(lines[1]))
             line_len == Len(line_items)
         IN  IF word_found
             THEN IF line_len = 1
                  THEN ScanWord(Tail(lines), word, TRUE, Append(doc_name_list, line_items[1]))
                  ELSE doc_name_list
             ELSE IF line_len = 2 /\ line_items[1] = lower(word)
                  THEN ScanWord(Tail(lines), word, TRUE, doc_name_list)
                  ELSE ScanWord(Tail(lines), word, FALSE, doc_name_list)

\* search_word: the returned list, with the path segments inspected and the
\* files opened on the way.
search_word(layout, word) ==
    LET word_hash == sha1_hash(lower(word))
        d == Descent(layout, INDEX_FOLDER, word_hash)
        path == d.visited[Len(d.visited)]
    IN  IF d.stopped /\ isfile(layout, path)
        THEN [value |-> ScanWord(readlines(layout.files[path], <<>>), word, FALSE, <<>>),
              visited |-> d.visited, opened |-> {path}]
        ELSE [value |-> <<>>, visited |-> d.visited, opened |-> {}]

(***************************************************************************)
(* Content tree: document name -> sentence dict (sentence number -> text). *)
(***************************************************************************)
\* transform_brackets
transform_brackets(target) ==
    replace(replace(target, <<"-", "L", "R", "B", "-">>, <<"(">>),
            <<"-", "R", "R", "B", "-">>, <<")">>)

\* expand_docs: the children of a split leaf, as nodes below path.
expand_docs(t, path, sent_dict, start_index) ==
    LET used == {sha1_hash(sent_dict.items[i].key)[start_index + 1] :
                     i \in 1..Len(sent_dict.items)}
        child(hash_digit) ==
            LET its == SelectItems(sent_dict.items, hash_digit, start_index)
            IN  Leaf(SumSeq([i \in 1..Len(its) |-> ContentLen(its[i].val) + 1]), its)
    IN  [p \in DOMAIN t \cup {Append(path, d) : d \in used} |->
            IF p = path THEN Inner
            ELSE IF p \in DOMAIN t THEN t[p]
            ELSE child(p[Len(p)])]

RECURSIVE add_doc_content(_, _, _, _)
\* add_doc_content.  The body names the node doc_dict while the signature
\* and the docstring call it doc_node; the model reads both as the node the
\* caller passes.
add_doc_content(doc_name, doc_content, doc_node, start_index) ==
    LET name_hash == sha1_hash(doc_name)
    IN  IF start_index >= Len(name_hash) THEN Raise(doc_node, "IndexError")
        ELSE
        LET path == SubSeq(name_hash, 1, start_index + 1)
            t1 == IF path \in DOMAIN doc_node THEN doc_node
                  ELSE Put(doc_node, path, Leaf(0, <<>>))
            value == t1[path]
        IN  IF value.kind = "leaf"
            THEN IF doc_name = SAFE_STRING
                 THEN \* the running total now is the dict: dict += int
                      Raise(t1, "TypeError")
                 ELSE
                 LET v1 == SetItem(value, doc_name, doc_content)
                     dict_len == ContentLen(doc_content) + 1
                     v2 == [v1 EXCEPT !.total = @ + dict_len]
                 IN  IF v2.total > FILE_CAPACITY /\ FILE_CAPACITY >= dict_len
                     THEN IF start_index + 1 >= Len(name_hash)
                          THEN \* del value[SAFE_STRING] is done, and the first
                               \* digit expand reads is past the digest: the
                               \* node stays, its keys in the place of children
                               Raise(Put(t1, path, [v2 EXCEPT !.kind = "inner", !.total = 0]),
                                     "IndexError")
                          ELSE Normal(expand_docs(t1, path, v2, start_index + 1))
                     ELSE Normal(Put(t1, path, v2))
            ELSE add_doc_content(doc_name, doc_content, t1, start_index + 1)

\* A variant of sorted_items that keeps the dict's insertion order.
sorted_items_Unsorted(doc_content) == doc_content

RECURSIVE sorted_items(_)
\* sorted(doc_content.items()): the (sent_no, sentence) pairs of the dict,
\* given in its insertion order, by ascending sentence number.
sorted_items(doc_content) ==
    IF doc_content = <<>> THEN <<>>
    ELSE LET m == CHOOSE i \in 1..Len(doc_content) :
                      \A j \in 1..Len(doc_content) : doc_content[i][1] <= doc_content[j][1]
         IN  <<doc_content[m]>>
             \o sorted_items(SubSeq(doc_content, 1, m - 1)
                             \o SubSeq(doc_content, m + 1, Len(doc_content)))

\* The text build_docs writes for one leaf: per document its name on a line,
\* then "<sent_no> <sentence>" per sentence, the sentence bringing its own
\* line end.
DocFileText(value) ==
    concat([i \in 1..Len(value.items) |->
        LET doc_name == value.items[i].key
            sents == sorted_items(value.items[i].val)
        IN  doc_name \o <<NL>>
            \o concat([k \in 1..Len(sents) |->
                   str(sents[k][1]) \o <<SP>> \o transform_brackets(sents[k][2])])])

\* build_docs, after os.mkdir(DOC_FOLDER).  The progress counters
\* (processed_doc_count, doc_count_1percent) are not part of the model.
build_docs(doc_node, doc_folder) ==
    [dirs |-> {<<doc_folder>>}
                \cup {<<doc_folder>> \o p : p \in {q \in DOMAIN doc_node :
                                                    doc_node[q].kind = "inner"}},
     files |-> [f \in {<<doc_folder>> \o p : p \in {q \in DOMAIN doc_node :
                                                    doc_node[q].kind = "leaf"}} |->
                   DocFileText(doc_node[Tail(f)])]]

RECURSIVE ScanDoc(_, _, _, _)
\* The line loop of get_doc_content over the lines still to be read.
ScanDoc(lines, doc_name, name_found, doc_content) ==
    IF lines = <<>> THEN [value |-> doc_content, raised |-> "none"]
    ELSE LET line == strip(lines[1])
         IN  IF name_found
             THEN LET space_index == find(line, SP)
                  IN  IF space_index # -1
                      THEN IF isint(SliceTo(line, space_index))
                           THEN ScanDoc(Tail(lines), doc_name, TRUE,
                                        Append(doc_content,
                                               <<int(SliceTo(line, space_index)),
                                                 SliceFrom(line, space_index + 1)>>))
                           ELSE [value |-> doc_content, raised |-> "ValueError"]
                      ELSE [value |-> doc_content, raised |-> "none"]
             ELSE ScanDoc(Tail(lines), doc_name, line = doc_name, doc_content)

\* get_doc_content: the returned list, with the path segments inspected and
\* the files opened on the way.
get_doc_content(layout, doc_name) ==
    LET name_hash == sha1_hash(doc_name)
        d == Descent(layout, DOC_FOLDER, name_hash)
        path == d.visited[Len(d.visited)]
    IN  IF d.stopped /\ isfile(layout, path)
        THEN LET r == ScanDoc(readlines(layout.files[path], <<>>), doc_name, FALSE, <<>>)
             IN  [value |-> r.value, raised |-> r.raised,
                  visited |-> d.visited, opened |-> {path}]
        ELSE [value |-> <<>>, raised |-> "none", visited |-> d.visited, opened |-> {}]

(***************************************************************************)
(* The build and the lookups.  index_documents builds the name tree in its *)
(* first round and the content tree in its second; the rounds share no     *)
(* state, and a behaviour of the model follows one of them: any sequence   *)
(* of inserts, the flush, then lookups on the layout.  A sentence dict is  *)
(* the sequence of its (sent_no, sentence) items in insertion order; a     *)
(* sentence is what index_documents stores, the rest of an input line with *)
(* its line end.                                                           *)
(***************************************************************************)
Words == {<<"a">>, <<"b">>, <<"c">>, SAFE_STRING}
DocNames == {<<"A">>, <<"B">>}
QueryWords == (Words \ {SAFE_STRING}) \cup {<<"d">>, <<"A">>}

ContentNames == {<<"A">>, <<"0">>, SAFE_STRING}
QueryNames == (ContentNames \ {SAFE_STRING}) \cup {<<"C">>}
SentNos == {0, 1}
Sentences == {<<NL>>, <<"a", NL>>}
DocContents ==
    {c \in UNION {[1..n -> SentNos \X Sentences] : n \in 0..Cardinality(SentNos)} :
        \A i, j \in 1..Len(c) : i # j => c[i][1] # c[j][1]}

Absent == <<>>

NoRet == [op |-> "none", arg |-> <<>>, value |-> <<>>, visited |-> <<>>, opened |-> {},
          raised |-> "none"]

\* No search_sentence call is in progress.
ResolverIdle ==
    /\ ss_sentence = <<>>
    /\ ss_stop_words = {}
    /\ ss_words = <<>>
    /\ ss_doc_names = <<>>
    /\ ss_ne_doc_names = <<>>
    /\ ss_i = 0
    /\ ss_ne_found = FALSE
    /\ ss_result = {}
    /\ accepted_at = {}

Init ==
    /\ first_round \in BOOLEAN
    /\ pc = "build"
    /\ index_dict = EmptyTree
    /\ doc_dict = EmptyTree
    /\ fs = NoFiles
    /\ ret = NoRet
    /\ ninserts = 0
    /\ inserted = IF first_round THEN [w \in Words |-> {}]
                  ELSE [n \in ContentNames |-> Absent]
    /\ index_dict_2 = EmptyTree
    /\ fs_2 = NoFiles
    /\ ResolverIdle

AddDocNameWord ==
    /\ first_round
    /\ pc = "build"
    /\ ninserts < MaxInserts
    /\ \E doc_name \in DocNames, word \in Words :
          LET r == add_doc_name_word(doc_name, word, index_dict, 0)
          IN  /\ index_dict' = r.tree
              /\ pc' = IF r.raised = "none" THEN "build" ELSE r.raised
              /\ inserted' = IF r.raised = "none"
                             THEN [inserted EXCEPT ![word] = @ \cup {doc_name}]
                             ELSE inserted
    /\ ninserts' = ninserts + 1
    /\ UNCHANGED <<first_round, doc_dict, fs, ret, rebuild_vars, resolver_vars>>

BuildIndices ==
    /\ first_round
    /\ pc = "build"
    /\ fs' = build_indices(index_dict, INDEX_FOLDER)
    /\ index_dict' = EmptyTree
    /\ pc' = "built"
    /\ UNCHANGED <<first_round, doc_dict, ret, ninserts, inserted, rebuild_vars, resolver_vars>>

SearchWord ==
    /\ first_round
    /\ pc = "built"
    /\ \E word \in QueryWords :
          LET r == search_word(fs, word)
          IN  ret' = [op |-> "search_word", arg |-> word, value |-> r.value,
                      visited |-> r.visited, opened |-> r.opened, raised |-> "none"]
    /\ UNCHANGED <<first_round, pc, index_dict, doc_dict, fs, ninserts, inserted,
                   rebuild_vars, resolver_vars>>

AddDocContent ==
    /\ ~first_round
    /\ pc = "build"
    /\ ninserts < MaxDocs
    /\ \E doc_name \in ContentNames, doc_content \in DocContents :
          LET r == add_doc_content(doc_name, doc_content, doc_dict, 0)
          IN  /\ doc_dict' = r.tree
              /\ pc' = IF r.raised = "none" THEN "build" ELSE r.raised
              /\ inserted' = IF r.raised = "none"
                             THEN [inserted EXCEPT ![doc_name] = <<doc_content>>]
                             ELSE inserted
    /\ ninserts' = ninserts + 1
    /\ UNCHANGED <<first_round, index_dict, fs, ret, rebuild_vars, resolver_vars>>

BuildDocs ==
    /\ ~first_round
    /\ pc = "build"
    /\ fs' = build_docs(doc_dict, DOC_FOLDER)
    /\ doc_dict' = EmptyTree
    /\ pc' = "built"
    /\ UNCHANGED <<first_round, index_dict, ret, ninserts, inserted, rebuild_vars, resolver_vars>>

GetDocContent ==
    /\ ~first_round
    /\ pc = "built"
    /\ \E doc_name \in QueryNames :
          LET r == get_doc_content(fs, doc_name)
          IN  ret' = [op |-> "get_doc_content", arg |-> doc_name, value |-> r.value,
                      visited |-> r.visited, opened |-> r.opened, raised |-> r.raised]
    /\ UNCHANGED <<first_round, pc, index_dict, doc_dict, fs, ninserts, inserted,
                   rebuild_vars, resolver_vars>>

Next ==
    \/ AddDocNameWord
    \/ BuildIndices
    \/ SearchWord
    \/ AddDocContent
    \/ BuildDocs
    \/ GetDocContent

Spec == Init /\ [][Next]_vars

(***************************************************************************)
(* Properties of the build and the lookups.                                *)
(***************************************************************************)
\* What the inserts so far put under a word (nothing under a word never inserted).
InsertedUnder(word) == IF word \in DOMAIN inserted THEN inserted[word] ELSE {}

\* A sentence as stored, without its line end.
SentenceBody(sentence) == SubSeq(sentence, 1, Len(sentence) - 1)

\* sum over the keys of a leaf of payload size + 1
NameOccupancy(value) ==
    SumSeq([i \in 1..Len(value.items) |-> NameLen(value.items[i].val) + 1])
ContentOccupancy(value) ==
    SumSeq([i \in 1..Len(value.items) |-> ContentLen(value.items[i].val) + 1])

LeavesOf(t) == {p \in DOMAIN t : t[p].kind = "leaf"}

C2_ContentRoundTrip ==
    (ret.op = "get_doc_content" /\ ret.arg \in DOMAIN inserted
        /\ inserted[ret.arg] # Absent) =>
        LET doc_content == inserted[ret.arg][1]
        IN  /\ ret.raised = "none"
            /\ Range(ret.value) =
                   {<<doc_content[i][1], SentenceBody(doc_content[i][2])>> :
                        i \in 1..Len(doc_content)}
            /\ Len(ret.value) = Len(doc_content)

\* C3: while the build may end, every leaf whose occupancy exceeds
\* FILE_CAPACITY holds a key whose own payload size + 1 exceeds it.
C3_Capacity ==
    pc = "build" =>
        /\ \A p \in LeavesOf(index_dict) :
              NameOccupancy(index_dict[p]) > FILE_CAPACITY =>
                  \E i \in 1..Len(index_dict[p].items) :
                      NameLen(index_dict[p].items[i].val) + 1 > FILE_CAPACITY
        /\ \A p \in LeavesOf(doc_dict) :
              ContentOccupancy(doc_dict[p]) > FILE_CAPACITY =>
                  \E i \in 1..Len(doc_dict[p].items) :
                      ContentLen(doc_dict[p].items[i].val) + 1 > FILE_CAPACITY

\* The digest and the root folder of the last lookup.
RetHash ==
    IF ret.op = "search_word" THEN sha1_hash(lower(ret.arg)) ELSE sha1_hash(ret.arg)
RetFolder == IF ret.op = "search_word" THEN INDEX_FOLDER ELSE DOC_FOLDER

\* C4: a lookup inspects one path segment per digest digit, in order and at
\* most as many as the digest has digits; every segment before the last is
\* a directory, the last is not one unless the digits ran out; and the only
\* file it opens is the leaf file of that last segment.
C4_PathDescent ==
    ret.op \in {"search_word", "get_doc_content"} =>
        /\ Len(ret.visited) \in 1..Len(RetHash)
        /\ \A i \in 1..Len(ret.visited) :
              ret.visited[i] = <<RetFolder>> \o SubSeq(RetHash, 1, i)
        /\ \A i \in 1..(Len(ret.visited) - 1) : isdir(fs, ret.visited[i])
        /\ Len(ret.visited) < Len(RetHash) => ~isdir(fs, ret.visited[Len(ret.visited)])
        /\ ret.opened \subseteq {ret.visited[Len(ret.visited)]} \cap DOMAIN fs.files

\* C4 witness: a lookup that went through a directory and opened the leaf
\* below it, while a sibling leaf exists.
C4_Witness ==
    /\ ret.op \in {"search_word", "get_doc_content"}
    /\ Len(ret.visited) >= 2
    /\ ret.opened # {}
    /\ \E f \in DOMAIN fs.files : f \notin ret.opened /\ Len(f) = Len(ret.visited) + 1

\* C5: a lookup of a word or document name that was never inserted returns
\* the empty list and raises nothing.
NeverInserted ==
    IF ret.op = "search_word" THEN InsertedUnder(lower(ret.arg)) = {}
    ELSE ret.arg \notin DOMAIN inserted \/ inserted[ret.arg] = Absent

C5_MissIsEmpty ==
    (ret.op \in {"search_word", "get_doc_content"} /\ NeverInserted) =>
        ret.value = <<>> /\ ret.raised = "none"

\* C8: the list get_doc_content returns is in strictly ascending sentence
\* number order.
C8_Ascending ==
    ret.op = "get_doc_content" =>
        \A i, j \in 1..Len(ret.value) : i < j => ret.value[i][1] < ret.value[j][1]

\* C8 witness: a document whose dict was filled in descending order, stored
\* after another document, is returned with both sentences.
C8_Witness ==
    /\ ret.op = "get_doc_content"
    /\ Len(ret.value) = 2
    /\ ret.arg \in DOMAIN inserted
    /\ inserted[ret.arg] # Absent
    /\ Len(inserted[ret.arg][1]) = 2
    /\ inserted[ret.arg][1][1][1] > inserted[ret.arg][1][2][1]
    /\ \E f \in DOMAIN fs.files :
          LET lines == readlines(fs.files[f], <<>>)
          IN  lines # <<>> /\ strip(lines[1]) # ret.arg /\ f \in ret.opened

(***************************************************************************)
(* add_doc_name and the sentence resolver of document_getter.py.           *)
(***************************************************************************)
\* The orders in which a set can be iterated (a Python set of str has no
\* specified order, and it changes from one process to the next).
IterationOrders(S) ==
    {order \in [1..Cardinality(S) -> S] :
        \A m, n \in 1..Cardinality(S) : m # n => order[m] # order[n]}

\* The characters re's [_\W] and \W match.
NonWordChars == {c \in Range(CharOrder) : ~isword_char(c)}

\* set(map(str.lower, filter(bool, re.split(r"[_\W]+", doc_name))))
doc_name_words(doc_name) ==
    {lower(w) : w \in Range(SplitOn(doc_name, NonWordChars \cup {"_"}, <<>>))}

RECURSIVE add_doc_name(_, _, _)
\* add_doc_name, the loop over set(doc_name_words) taken in the given order;
\* an exception ends it.
add_doc_name(doc_name, index_node, order) ==
    IF order = <<>> THEN Normal(index_node)
    ELSE LET r == add_doc_name_word(doc_name, order[1], index_node, 0)
         IN  IF r.raised # "none" THEN r
             ELSE add_doc_name(doc_name, r.tree, Tail(order))

RECURSIVE SplitSep(_, _, _)
\* s.split(sep) for a one-character sep: empty items are kept.
SplitSep(s, sep, cur) ==
    IF s = <<>> THEN <<cur>>
    ELSE IF s[1] = sep THEN <<cur>> \o SplitSep(Tail(s), sep, <<>>)
    ELSE SplitSep(Tail(s), sep, Append(cur, s[1]))

\* re.sub(r"\(.*\)", "", s): the greedy match runs from the first "(" to
\* the last ")" behind it.
sub_parens(s) ==
    LET opens == {k \in 1..Len(s) : s[k] = "("}
        closes == {k \in 1..Len(s) : s[k] = ")"}
    IN  IF opens = {} \/ closes = {} THEN s
        ELSE LET first == CHOOSE k \in opens : \A m \in opens : k <= m
                 last == CHOOSE k \in closes : \A m \in closes : k >= m
             IN  IF first < last
                 THEN SubSeq(s, 1, first - 1) \o SubSeq(s, last + 1, Len(s))
                 ELSE s

RECURSIVE strip_chars(_, _)
\* s.strip(chars)
strip_chars(s, chars) ==
    IF s # <<>> /\ s[1] \in chars THEN strip_chars(Tail(s), chars)
    ELSE IF s # <<>> /\ s[Len(s)] \in chars THEN strip_chars(SubSeq(s, 1, Len(s) - 1), chars)
    ELSE s

\* get_words
get_words(doc_name) ==
    LET short_name == strip_chars(sub_parens(doc_name), {"_"})
        name_words == SplitSep(short_name, "_", <<>>)
    IN  [k \in 1..Len(name_words) |-> lower(name_words[k])]

\* A variant of get_valid_names that compares only as many words as the
\* sentence still has.
get_valid_names_Truncated(word_list_of_sentence, name_list) ==
    {name_list[k] : k \in {m \in 1..Len(name_list) :
        LET n == IF Len(name_list[m][2]) < Len(word_list_of_sentence)
                 THEN Len(name_list[m][2]) ELSE Len(word_list_of_sentence)
        IN  SubSeq(word_list_of_sentence, 1, n) = SubSeq(name_list[m][2], 1, n)}}

\* get_valid_names: the (name, word tuple) pairs whose words start the list.
get_valid_names(word_list_of_sentence, name_list) ==
    {name_list[k] : k \in {m \in 1..Len(name_list) :
        SubSeq(word_list_of_sentence, 1,
               IF Len(name_list[m][2]) < Len(word_list_of_sentence)
               THEN Len(name_list[m][2]) ELSE Len(word_list_of_sentence))
            = name_list[m][2]}}

\* is_valid of absorb_doc_names for the popped string: no remaining or kept
\* string contains it.
is_valid(popped, others) == ~\E remain_words \in others : contains(remain_words, popped)

RECURSIVE absorb_loop(_, _)
\* The while loop of absorb_doc_names: order is words_set in the order
\* words_set.pop() yields it.
absorb_loop(order, new_set) ==
    IF order = <<>> THEN new_set
    ELSE LET popped == order[1]
         IN  absorb_loop(Tail(order),
                         IF is_valid(popped, Range(Tail(order)) \cup new_set)
                         THEN new_set \cup {popped} ELSE new_set)

\* name_dict of absorb_doc_names, a defaultdict(set): word tuple -> names.
name_dict_of(accepted, word_list) == {a[1] : a \in {b \in accepted : b[2] = word_list}}

\* words_set of absorb_doc_names
words_set_of(accepted) == {join(<<SP>>, a[2]) : a \in accepted}

\* absorb_doc_names, with the order in which words_set is popped.
absorb_doc_names(accepted, order) ==
    UNION {name_dict_of(accepted, split(w)) : w \in absorb_loop(order, {})}

RECURSIVE lookup_words(_, _, _, _)
\* The first loop of search_sentence: one search_word per distinct
\* lowercased token outside the stop words, filed by the token's case.
lookup_words(layout, word_seq, stops, dicts) ==
    IF word_seq = <<>> THEN dicts
    ELSE LET word == word_seq[1]
             is_common == islower(word[1])
             target_dict == IF is_common THEN dicts.doc_names ELSE dicts.ne_doc_names
             found == search_word(layout, lower(word)).value
             entry == [k \in 1..Len(found) |-> <<found[k], get_words(found[k])>>]
         IN  IF word # <<>> /\ word \notin stops /\ lower(word) \notin DOMAIN target_dict
             THEN lookup_words(layout, Tail(word_seq), stops,
                      IF is_common
                      THEN [dicts EXCEPT !.doc_names = Put(@, lower(word), entry)]
                      ELSE [dicts EXCEPT !.ne_doc_names = Put(@, lower(word), entry)])
             ELSE lookup_words(layout, Tail(word_seq), stops, dicts)

\* A variant of scan_position that keeps result on the switch to entity mode.
scan_position_NoClear(word_seq, dicts, st) ==
    LET word == word_seq[st.i + 1]
        lower_words == [k \in 1..Len(word_seq) |-> lower(word_seq[k])]
        is_ne == ~islower(word[1])
        target_dict == IF is_ne THEN dicts.ne_doc_names ELSE dicts.doc_names
        now_found == st.ne_found \/ is_ne
        valid == IF now_found = is_ne /\ lower_words[st.i + 1] \in DOMAIN target_dict
                 THEN get_valid_names(SliceFrom(lower_words, st.i),
                                      target_dict[lower_words[st.i + 1]])
                 ELSE {}
    IN  [i |-> st.i + 1,
         ne_found |-> now_found,
         result |-> st.result \cup valid,
         accepted_at |-> st.accepted_at \cup {<<st.i, a[1]>> : a \in valid}]

\* One iteration of the second loop of search_sentence, at position st.i.
scan_position(word_seq, dicts, st) ==
    LET word == word_seq[st.i + 1]
        lower_words == [k \in 1..Len(word_seq) |-> lower(word_seq[k])]
        is_ne == ~islower(word[1])
        target_dict == IF is_ne THEN dicts.ne_doc_names ELSE dicts.doc_names
        switch == ~st.ne_found /\ is_ne
        now_found == st.ne_found \/ is_ne
        kept == IF switch THEN {} ELSE st.result
        kept_at == IF switch THEN {} ELSE st.accepted_at
        valid == IF now_found = is_ne /\ lower_words[st.i + 1] \in DOMAIN target_dict
                 THEN get_valid_names(SliceFrom(lower_words, st.i),
                                      target_dict[lower_words[st.i + 1]])
                 ELSE {}
    IN  [i |-> st.i + 1,
         ne_found |-> now_found,
         result |-> kept \cup valid,
         accepted_at |-> kept_at \cup {<<st.i, a[1]>> : a \in valid}]

(***************************************************************************)
(* The resolver on the index of a small corpus.                            *)
(***************************************************************************)
Corpus == << <<"S", "o", "u", "l">>,
             <<"S", "o", "u", "l", "_", "F", "o", "o", "d">>,
             <<"A", "r", "t">>,
             <<"S", "t", "a", "r", "t">>,
             <<"S", "o", "u", "l", "_", "(", "b", ")">> >>

RECURSIVE index_corpus(_, _)
\* The first round of index_documents over the corpus (each name's words
\* taken in sorted order).
index_corpus(names, index_node) ==
    IF names = <<>> THEN index_node
    ELSE index_corpus(Tail(names),
             add_doc_name(names[1], index_node, sorted(doc_name_words(names[1]))).tree)

CorpusIndex == build_indices(index_corpus(Corpus, EmptyTree), INDEX_FOLDER)

Tokens == {<<"S", "o", "u", "l">>, <<"s", "o", "u", "l">>, <<"F", "o", "o", "d">>,
           <<"f", "o", "o", "d">>, <<"A", "r", "t">>, <<"S", "t", "a", "r", "t">>}

ClaimSentences ==
    {join(<<SP>>, ts) : ts \in UNION {[1..n -> Tokens] : n \in 0..MaxTokens}}

StopWordSets == SUBSET {<<"F", "o", "o", "d">>, <<"s", "o", "u", "l">>}

InitResolve ==
    /\ first_round = TRUE
    /\ pc = "call"
    /\ index_dict = EmptyTree
    /\ doc_dict = EmptyTree
    /\ fs = CorpusIndex
    /\ ret = NoRet
    /\ ninserts = 0
    /\ inserted = <<>>
    /\ index_dict_2 = EmptyTree
    /\ fs_2 = NoFiles
    /\ ss_sentence \in ClaimSentences
    /\ ss_stop_words \in StopWordSets
    /\ ss_words = <<>>
    /\ ss_doc_names = <<>>
    /\ ss_ne_doc_names = <<>>
    /\ ss_i = 0
    /\ ss_ne_found = FALSE
    /\ ss_result = {}
    /\ accepted_at = {}

\* search_sentence up to the second loop: tokenize and look the tokens up.
LookupWords ==
    /\ pc = "call"
    /\ LET word_seq == SplitOn(ss_sentence, NonWordChars, <<>>)
           dicts == lookup_words(fs, word_seq, ss_stop_words,
                                 [doc_names |-> <<>>, ne_doc_names |-> <<>>])
       IN  /\ ss_words' = word_seq
           /\ ss_doc_names' = dicts.doc_names
           /\ ss_ne_doc_names' = dicts.ne_doc_names
    /\ pc' = "scan"
    /\ UNCHANGED <<first_round, index_dict, doc_dict, fs, ret, ninserts, inserted,
                   rebuild_vars, ss_sentence, ss_stop_words, ss_i, ss_ne_found,
                   ss_result, accepted_at>>

\* One iteration of the second loop.
ScanPosition ==
    /\ pc = "scan"
    /\ ss_i < Len(ss_words)
    /\ LET st == scan_position(ss_words,
                     [doc_names |-> ss_doc_names, ne_doc_names |-> ss_ne_doc_names],
                     [i |-> ss_i, ne_found |-> ss_ne_found, result |-> ss_result,
                      accepted_at |-> accepted_at])
       IN  /\ ss_i' = st.i
           /\ ss_ne_found' = st.ne_found
           /\ ss_result' = st.result
           /\ accepted_at' = st.accepted_at
    /\ UNCHANGED <<build_vars, rebuild_vars, ss_sentence, ss_stop_words, ss_words,
                   ss_doc_names, ss_ne_doc_names>>

\* return list(absorb_doc_names(result)), words_set popped in any order.
Absorb ==
    /\ pc = "scan"
    /\ ss_i = Len(ss_words)
    /\ \E order \in IterationOrders(words_set_of(ss_result)) :
          ret' = [op |-> "search_sentence", arg |-> ss_sentence,
                  value |-> absorb_doc_names(ss_result, order),
                  visited |-> <<>>, opened |-> {}, raised |-> "none"]
    /\ pc' = "returned"
    /\ UNCHANGED <<first_round, index_dict, doc_dict, fs, ninserts, inserted,
                   rebuild_vars, resolver_vars>>

NextResolve == LookupWords \/ ScanPosition \/ Absorb

SpecResolve == InitResolve /\ [][NextResolve]_vars

(***************************************************************************)
(* Two builds of the same corpus: the first round of index_documents run   *)
(* twice on the same document names, each run iterating the word set of a  *)
(* name in an order of its own.                                            *)
(***************************************************************************)
CorpusNames == {<<"a">>, <<"a", "_", "b">>, <<"b", "_", "c">>, <<"c", "_", "a">>}

InitTwice ==
    /\ first_round = TRUE
    /\ pc = "build"
    /\ index_dict = EmptyTree
    /\ doc_dict = EmptyTree
    /\ fs = NoFiles
    /\ ret = NoRet
    /\ ninserts = 0
    /\ inserted = <<>>
    /\ index_dict_2 = EmptyTree
    /\ fs_2 = NoFiles
    /\ ResolverIdle

AddDocNameTwice ==
    /\ pc = "build"
    /\ ninserts < MaxCorpus
    /\ \E doc_name \in CorpusNames :
          \E order \in IterationOrders(doc_name_words(doc_name)),
             order_2 \in IterationOrders(doc_name_words(doc_name)) :
              LET r == add_doc_name(doc_name, index_dict, order)
                  r_2 == add_doc_name(doc_name, index_dict_2, order_2)
              IN  /\ index_dict' = r.tree
                  /\ index_dict_2' = r_2.tree
                  /\ pc' = IF r.raised # "none" THEN r.raised
                           ELSE IF r_2.raised # "none" THEN r_2.raised
                           ELSE "build"
    /\ ninserts' = ninserts + 1
    /\ UNCHANGED <<first_round, doc_dict, fs, ret, inserted, fs_2, resolver_vars>>

BuildIndicesTwice ==
    /\ pc = "build"
    /\ fs' = build_indices(index_dict, INDEX_FOLDER)
    /\ fs_2' = build_indices(index_dict_2, INDEX_FOLDER)
    /\ index_dict' = EmptyTree
    /\ index_dict_2' = EmptyTree
    /\ pc' = "built"
    /\ UNCHANGED <<first_round, doc_dict, ret, ninserts, inserted, resolver_vars>>

NextTwice == AddDocNameTwice \/ BuildIndicesTwice

SpecTwice == InitTwice /\ [][NextTwice]_vars

(***************************************************************************)
(* Properties of the resolver and of repeated builds.                      *)
(***************************************************************************)
\* Whether the token at 0-based position k is a named-entity token.
IsEntityToken(k) == ~islower(ss_words[k + 1][1])

EntityPositions == {k \in 0..(Len(ss_words) - 1) : IsEntityToken(k)}

\* C6: when the sentence has a token whose first character is not
\* lowercase, every returned name was accepted at such a token's position,
\* at or after the first of them, where the name's words start the rest of
\* the sentence; no acceptance at a lowercase token's position is kept.
C6_EntityPrecedence ==
    (pc = "returned" /\ EntityPositions # {}) =>
        /\ \A name \in ret.value : \E a \in accepted_at : a[2] = name
        /\ \A a \in accepted_at :
              /\ a[1] \in EntityPositions
              /\ a[1] >= (CHOOSE k \in EntityPositions : \A m \in EntityPositions : k <= m)
              /\ LET name_words == get_words(a[2])
                 IN  /\ a[1] + Len(name_words) <= Len(ss_words)
                     /\ \A k \in 1..Len(name_words) :
                           name_words[k] = lower(ss_words[a[1] + k])

\* C6 witness: a name was accepted at a lowercase token before the first
\* named-entity token, and the call returns names all the same.
C6_Witness ==
    /\ pc = "returned"
    /\ ret.value # {}
    /\ \E j \in 0..(Len(ss_words) - 1) :
          /\ ~IsEntityToken(j)
          /\ \A k \in EntityPositions : j < k
          /\ lower(ss_words[j + 1]) \in DOMAIN ss_doc_names
          /\ get_valid_names(SliceFrom([k \in 1..Len(ss_words) |-> lower(ss_words[k])], j),
                             ss_doc_names[lower(ss_words[j + 1])]) # {}

\* Whether word list run is a contiguous run of whole words of word list whole.
IsTokenRun(run, whole) ==
    \E k \in 0..(Len(whole) - Len(run)) : SubSeq(whole, k + 1, k + Len(run)) = run

\* C7: the resolver keeps exactly the accepted names whose word list is not
\* a contiguous run of whole words inside a different accepted word list.
C7_TokenAbsorption ==
    pc = "returned" =>
        ret.value = {a[1] : a \in {b \in ss_result :
                        ~\E c \in ss_result : c[2] # b[2] /\ IsTokenRun(b[2], c[2])}}

\* C10: the second loop enters entity mode, and drops accepted matches,
\* only at a token that is not lowercase-initial and is not a stop word.
C10_EntityTrigger ==
    [][(pc = "scan" /\ ((~ss_ne_found /\ ss_ne_found') \/ ~(ss_result \subseteq ss_result')))
          => (IsEntityToken(ss_i) /\ ss_words[ss_i + 1] \notin ss_stop_words)]_vars

\* C9: two builds of the same corpus leave the same directories and the
\* same leaf files, character for character.
C9_SameLayout == pc = "built" => fs = fs_2

\* Whether the words of a name are the sentence's lowercased tokens from
\* 0-based position i on, all of them before the sentence ends.
PrefixAt(name_words, i) ==
    /\ i + Len(name_words) <= Len(ss_words)
    /\ \A k \in 1..Len(name_words) : name_words[k] = lower(ss_words[i + k])

\* The candidates the second loop retrieves at 0-based position i, given the
\* mode it is in there: those filed under the lowercased token in the pool
\* of the token's case class.
RetrievedAt(i, ne_found_there) ==
    LET pool == IF IsEntityToken(i) THEN ss_ne_doc_names ELSE ss_doc_names
        word == lower(ss_words[i + 1])
    IN  IF ne_found_there = IsEntityToken(i) /\ word \in DOMAIN pool
        THEN {pool[word][k][1] : k \in 1..Len(pool[word])}
        ELSE {}

\* C11: at every position the second loop handles, a retrieved candidate is
\* accepted there if and only if the words of its name equal the sentence's
\* lowercased tokens from that position on, as many as the name has; and
\* nothing but a retrieved candidate is accepted there.
C11_PrefixAcceptance ==
    [][(pc = "scan" /\ ss_i' = ss_i + 1) =>
          /\ \A name \in RetrievedAt(ss_i, ss_ne_found') :
                (<<ss_i, name>> \in accepted_at') <=> PrefixAt(get_words(name), ss_i)
          /\ \A a \in accepted_at' :
                a[1] = ss_i => a[2] \in RetrievedAt(ss_i, ss_ne_found')]_vars

\* C11 witness: a two-word name is accepted at one position after it was
\* retrieved and turned down at an earlier one.
C11_Witness ==
    /\ pc = "scan"
    /\ \E a \in accepted_at :
          /\ Len(get_words(a[2])) = 2
          /\ \E j \in 0..(a[1] - 1) :
                /\ a[2] \in RetrievedAt(j, TRUE)
                /\ <<j, a[2]>> \notin accepted_at
                /\ ~PrefixAt(get_words(a[2]), j)

\* The leaves of a tree that hold a key, and the places a leaf holds it at.
LeavesHolding(t, key) == {p \in LeavesOf(t) : HasKey(t[p], key)}
PlacesIn(value, key) == {i \in 1..Len(value.items) : value.items[i].key = key}

\* Every key of every leaf has the leaf's path as the first digits of its
\* digest, as many as the leaf is deep, and is held once, by one leaf.
WellAddressed(t) ==
    \A p \in LeavesOf(t) : \A i \in 1..Len(t[p].items) :
        LET key == t[p].items[i].key
        IN  /\ Len(p) <= Len(sha1_hash(key))
            /\ SubSeq(sha1_hash(key), 1, Len(p)) = p
            /\ LeavesHolding(t, key) = {p}
            /\ PlacesIn(t[p], key) = {i}

\* The keys the inserts so far have stored.
StoredKeys ==
    IF first_round THEN {w \in DOMAIN inserted : inserted[w] # {}}
    ELSE {n \in DOMAIN inserted : inserted[n] # Absent}

\* C12: while the build goes on, in both trees every key stored in a leaf at
\* depth d lies on the path spelled by the first d digits of its digest, and
\* every inserted key is stored in exactly one leaf.
C12_LeafAddressing ==
    pc = "build" =>
        /\ WellAddressed(index_dict)
        /\ WellAddressed(doc_dict)
        /\ \A key \in StoredKeys :
              Cardinality(LeavesHolding(IF first_round THEN index_dict ELSE doc_dict, key)) = 1

\* C12 witness: after a split, the keys of the split leaf sit in two leaves
\* of the next level, one of them holding two keys.
C12_Witness ==
    /\ pc = "build"
    /\ LET t == IF first_round THEN index_dict ELSE doc_dict
       IN  \E p, q \in LeavesOf(t) :
               /\ p # q
               /\ Len(p) = 2 /\ Len(q) = 2
               /\ Len(t[p].items) = 2 /\ t[q].items # <<>>

\* The leaf an insert of key lands in: the first node on the path of the
\* key's digest that is a leaf, or that is missing (and then is created).
LandingLeaf(t, key) ==
    LET h == sha1_hash(key)
    IN  CHOOSE p \in {SubSeq(h, 1, k) : k \in 1..Len(h)} :
            /\ p \in DOMAIN t => t[p].kind = "leaf"
            /\ \A k \in 1..(Len(p) - 1) :
                  SubSeq(h, 1, k) \in DOMAIN t /\ t[SubSeq(h, 1, k)].kind = "inner"

\* The split policy on one insert that takes tree t to tree t2: key is the
\* inserted key, payload its payload after the insert, size the payload's
\* size plus one, total the leaf's running total after the insert.
SplitPolicy(t, t2, key, payload, size, total) ==
    LET L == LandingLeaf(t, key)
        before == IF L \in DOMAIN t THEN t[L] ELSE Leaf(0, <<>>)
        after == SetItem(before, key, payload)
        must_split == total > FILE_CAPACITY /\ size <= FILE_CAPACITY
    IN  /\ L \in DOMAIN t2
        /\ (t2[L].kind = "inner") <=> must_split
        /\ ~must_split => t2[L] = [after EXCEPT !.total = total]
        /\ must_split =>
              \A i \in 1..Len(after.items) :
                  LET h == sha1_hash(after.items[i].key)
                      child == Append(L, h[Len(L) + 1])
                  IN  /\ Len(L) < Len(h)
                      /\ child \in LeavesOf(t2)
                      /\ \E j \in 1..Len(t2[child].items) :
                            t2[child].items[j] = after.items[i]
        /\ \A p \in DOMAIN t \ {L} : p \in DOMAIN t2 /\ t2[p] = t[p]
        /\ \A p \in DOMAIN t2 \ (DOMAIN t \cup {L}) :
              must_split /\ Len(p) = Len(L) + 1 /\ SubSeq(p, 1, Len(L)) = L

\* Whether this step is the insert of (doc_name, word) into the name tree,
\* or of (doc_name, doc_content) into the content tree.
IsNameInsert(doc_name, word) ==
    /\ first_round /\ pc = "build" /\ ninserts' = ninserts + 1
    /\ index_dict' = add_doc_name_word(doc_name, word, index_dict, 0).tree
IsContentInsert(doc_name, doc_content) ==
    /\ ~first_round /\ pc = "build" /\ ninserts' = ninserts + 1
    /\ doc_dict' = add_doc_content(doc_name, doc_content, doc_dict, 0).tree

\* The running total of the landing leaf before an insert of key.
TotalBefore(t, key) ==
    IF LandingLeaf(t, key) \in DOMAIN t THEN t[LandingLeaf(t, key)].total ELSE 0

\* The names under word in its landing leaf before an insert.
NamesBefore(t, word) ==
    LET L == LandingLeaf(t, word)
    IN  IF L \in DOMAIN t /\ HasKey(t[L], word) THEN Payload(t[L], word) ELSE {}

\* C13: an insert turns the leaf it lands in into an internal node if and
\* only if the leaf's running total after the insert exceeds FILE_CAPACITY
\* and the inserted key's payload size plus one is at most FILE_CAPACITY;
\* a split leaf's pairs all appear unchanged in the child of the key's next
\* digest digit, and no other leaf changes.
C13_SplitPolicy ==
    [][/\ \A doc_name \in DocNames, word \in Words \ {SAFE_STRING} :
              IsNameInsert(doc_name, word) =>
                  SplitPolicy(index_dict, index_dict', word,
                              NamesBefore(index_dict, word) \cup {doc_name},
                              NameLen(NamesBefore(index_dict, word) \cup {doc_name}) + 1,
                              TotalBefore(index_dict, word) + 1)
       /\ \A doc_name \in ContentNames \ {SAFE_STRING}, doc_content \in DocContents :
              IsContentInsert(doc_name, doc_content) =>
                  SplitPolicy(doc_dict, doc_dict', doc_name, doc_content,
                              ContentLen(doc_content) + 1,
                              TotalBefore(doc_dict, doc_name) + ContentLen(doc_content) + 1)]_vars

\* C14: an insert raises the running total of the leaf it lands in by the
\* size of what it contributes plus one (one document name plus one in the
\* name tree, the number of sentences plus one in the content tree), and so
\* the total every leaf carries is the sum over its keys of payload size
\* plus one, the quantity a split recomputes for the children.
C14_RunningTotal ==
    [][/\ \A doc_name \in DocNames, word \in Words \ {SAFE_STRING} :
              LET L == LandingLeaf(index_dict, word)
              IN  (IsNameInsert(doc_name, word) /\ L \in LeavesOf(index_dict')) =>
                      index_dict'[L].total = TotalBefore(index_dict, word) + 1 + 1
       /\ \A doc_name \in ContentNames \ {SAFE_STRING}, doc_content \in DocContents :
              LET L == LandingLeaf(doc_dict, doc_name)
              IN  (IsContentInsert(doc_name, doc_content) /\ L \in LeavesOf(doc_dict')) =>
                      doc_dict'[L].total =
                          TotalBefore(doc_dict, doc_name) + ContentLen(doc_content) + 1
       /\ pc' = "build" =>
              /\ \A p \in LeavesOf(index_dict') :
                    index_dict'[p].total = NameOccupancy(index_dict'[p])
              /\ \A p \in LeavesOf(doc_dict') :
                    doc_dict'[p].total = ContentOccupancy(doc_dict'[p])]_vars

\* The keys held at or below node p of tree t.
KeysBelow(t, p) ==
    UNION {Keys(t[q]) : q \in {x \in DOMAIN t : Len(x) >= Len(p) /\ SubSeq(x, 1, Len(p)) = p}}

\* The nodes of t2 that an insert into t has turned from a leaf (present or
\* just created) into a node that is none.
SplitBy(t, t2) ==
    {p \in DOMAIN t2 : t2[p].kind = "inner" /\ (p \in DOMAIN t => t[p].kind = "leaf")}

\* C15: whatever the inserts, repeated ones included, an insert returns
\* without needing a digest digit past the last one, never splits a leaf
\* that holds a single key, and leaves no leaf deeper than the digest is
\* long.
C15_BoundedDepth ==
    [][(pc = "build" /\ ninserts' = ninserts + 1) =>
          /\ pc' # "IndexError"
          /\ \A p \in SplitBy(index_dict, index_dict') :
                Cardinality(KeysBelow(index_dict', p)) >= 2
          /\ \A p \in SplitBy(doc_dict, doc_dict') :
                Cardinality(KeysBelow(doc_dict', p)) >= 2
          /\ \A p \in LeavesOf(index_dict') \cup LeavesOf(doc_dict') :
                Len(p) <= Len(sha1_hash(SAFE_STRING))]_vars

====
